---- MODULE Spec2Model ----
(***************************************************************************)
(* Model of openfold/model/evoformer.py: MSATransition, EvoformerBlock,    *)
(* EvoformerStack and ExtraMSAStack.                                       *)
(*                                                                         *)
(* Tensors are sequences.  m is [N_seq][N_res] of channel vectors, z is    *)
(* [N_res][N_res] of channel vectors, a mask is [N_seq][N_res] (or         *)
(* [N_res][N_res]) of 0/1.  The channel width is two, written as a pair,   *)
(* which is the width at which layer normalisation has an exact integer    *)
(* form.  An Optional value is <<>> (None) or <<v>>.                       *)
(***************************************************************************)
EXTENDS Integers, Sequences, FiniteSets, TLC

\* ---------------------------------------------------------------- bounds
NSeq == 3
NRes == 2
NoBlocks == 3
MaxChunk == 2

\* ------------------------------------------------------- tensor helpers
None == <<>>
Some(v) == <<v>>

RECURSIVE SumSeq(_)
SumSeq(s) == IF s = <<>> THEN 0 ELSE s[1] + SumSeq(Tail(s))

Sgn(x) == IF x > 0 THEN 1 ELSE IF x < 0 THEN 0 - 1 ELSE 0

\* torch "+" on two tensors of one shape
TAdd(x, y) ==
    [i \in 1..Len(x) |-> [j \in 1..Len(x[i]) |->
        <<x[i][j][1] + y[i][j][1], x[i][j][2] + y[i][j][2]>>]]

\* m.new_ones(m.shape[:-1])
new_ones(m) == [i \in 1..Len(m) |-> [j \in 1..Len(m[i]) |-> 1]]

\* mask.unsqueeze(-1): every entry becomes a length-one channel axis
unsqueeze(mask) == [i \in 1..Len(mask) |-> [j \in 1..Len(mask[i]) |-> <<mask[i][j]>>]]

\* ------------------------------------------- primitives of the Transition
\* nn.LayerNorm over a channel axis of width two: (a, b) has mean (a+b)/2 and
\* standard deviation |a-b|/2, so the normalised vector is (sgn(a-b), sgn(b-a)).
LayerNorm(m) ==
    [i \in 1..Len(m) |-> [j \in 1..Len(m[i]) |->
        <<Sgn(m[i][j][1] - m[i][j][2]), Sgn(m[i][j][2] - m[i][j][1])>>]]

\* Linear: v |-> W v + bias on the channel axis
LinearVec(W, bias, v) ==
    [k \in 1..Len(W) |-> SumSeq([c \in 1..Len(v) |-> W[k][c] * v[c]]) + bias[k]]

Linear(W, bias, m) ==
    [i \in 1..Len(m) |-> [j \in 1..Len(m[i]) |-> LinearVec(W, bias, m[i][j])]]

ReLU(m) ==
    [i \in 1..Len(m) |-> [j \in 1..Len(m[i]) |->
        [k \in 1..Len(m[i][j]) |-> IF m[i][j][k] > 0 THEN m[i][j][k] ELSE 0]]]

\* tensor * mask, the mask's length-one channel axis broadcast
MulMask(m, mask) ==
    [i \in 1..Len(m) |-> [j \in 1..Len(m[i]) |->
        [k \in 1..Len(m[i][j]) |-> m[i][j][k] * mask[i][j][1]]]]

\* weights of block b's MSATransition (hidden width n * c_m with n = 2)
linear_1_W(b) == <<<<1, 0>>, <<0, 1>>, <<1, 0 - 1>>, <<0 - 1, b>>>>
linear_1_b(b) == <<0, 0, 0, 0 - 1>>
linear_2_W(b) == <<<<1, 0 - 1, 2, 0>>, <<0, 1, 0 - 1, b>>>>
linear_2_b(b) == <<1, 0>>

\* --------------------------------------------------------- MSATransition
\* MSATransition._transition (lines 68-72).  Each intermediate tensor is bound
\* as a value (x \in {e}) before the next layer reads it.
MSATransition_transition(b, m, mask) ==
    CHOOSE r \in
        { MulMask(m3, mask) :
            m3 \in { Linear(linear_2_W(b), linear_2_b(b), m2) :
                m2 \in { ReLU(m1) :
                    m1 \in {Linear(linear_1_W(b), linear_1_b(b), m)} } } } : TRUE

\* chunk_layer(layer, {"m", "mask"}, chunk_size, no_batch_dims): the leading
\* no_batch_dims axes are flattened, every input is cut into consecutive
\* slices of at most chunk_size rows, the layer is applied to the slices of
\* equal position and each result is put back at the rows it came from.
NoChunks(n, chunk_size) == (n + chunk_size - 1) \div chunk_size
ChunkLo(k, chunk_size) == (k - 1) * chunk_size + 1
ChunkHi(k, chunk_size, n) == IF k * chunk_size < n THEN k * chunk_size ELSE n

chunk_layer_slices(t, chunk_size) ==
    [k \in 1..NoChunks(Len(t), chunk_size) |->
        SubSeq(t, ChunkLo(k, chunk_size), ChunkHi(k, chunk_size, Len(t)))]

chunk_layer_assemble(outs, n, chunk_size) ==
    [i \in 1..n |-> outs[((i - 1) \div chunk_size) + 1][((i - 1) % chunk_size) + 1]]

\* the tiled path with the mask left out of the tiled inputs
MSATransition_chunk_nomask(b, m, mask, chunk_size) ==
    CHOOSE r \in
        { chunk_layer_assemble(outs, Len(m), chunk_size) :
            outs \in { [k \in 1..Len(ms) |->
                          MSATransition_transition(b, ms[k], unsqueeze(new_ones(ms[k])))] :
                       ms \in {chunk_layer_slices(m, chunk_size)} } } : TRUE

\* MSATransition._chunk (lines 74-85): chunk_layer over self._transition with
\* inputs m and mask; no_batch_dims = len(m.shape[:-2]) is the N_seq axis
MSATransition_chunk(b, m, mask, chunk_size) ==
    CHOOSE r \in
        { chunk_layer_assemble(outs, Len(m), chunk_size) :
            outs \in { [k \in 1..Len(ms) |-> MSATransition_transition(b, ms[k], ks[k])] :
                       ms \in {chunk_layer_slices(m, chunk_size)},
                       ks \in {chunk_layer_slices(mask, chunk_size)} } } : TRUE

\* MSATransition.forward(m, mask=None, chunk_size=None)
MSATransition_forward(b, m, mask, chunk_size) ==
    CHOOSE r \in
        { IF chunk_size # None
          THEN MSATransition_chunk(b, mn, mask2, chunk_size[1])
          ELSE MSATransition_transition(b, mn, mask2) :
            mask2 \in { unsqueeze(mask1) :
                          mask1 \in {IF mask = None THEN new_ones(m) ELSE mask[1]} },
            mn \in {LayerNorm(m)} } : TRUE


\* ------------------------------------- sub-operations owned by other modules
\* Each is consumed as a function of (tensors, mask, chunk_size); an absent
\* mask counts as all ones.  Block b's weights enter through b.
OptMask(mask, like) == IF mask = None THEN new_ones(like) ELSE mask[1]

MSARowAttentionWithPairBias(b, m, z, mask, chunk_size) ==
    LET mk == OptMask(mask, m) IN
    [s \in 1..Len(m) |-> [r \in 1..Len(m[s]) |->
        <<(SumSeq([q \in 1..Len(m[s]) |-> mk[s][q] * (m[s][q][1] + z[r][q][1])]) + b) % 5,
          SumSeq([q \in 1..Len(m[s]) |-> mk[s][q] * (m[s][q][2] + z[r][q][2])]) % 3>>]]

MSAColumnAttention(b, m, mask, chunk_size) ==
    LET mk == OptMask(mask, m) IN
    [s \in 1..Len(m) |-> [r \in 1..Len(m[s]) |->
        <<(SumSeq([t \in 1..Len(m) |-> mk[t][r] * m[t][r][1]]) + s) % 5,
          (SumSeq([t \in 1..Len(m) |-> mk[t][r] * m[t][r][2]]) + b) % 3>>]]

MSAColumnGlobalAttention(b, m, mask, chunk_size) ==
    LET mk == OptMask(mask, m) IN
    [s \in 1..Len(m) |-> [r \in 1..Len(m[s]) |->
        <<SumSeq([t \in 1..Len(m) |-> mk[t][r] * (m[t][r][1] + m[t][r][2])]) % 5,
          (b + r + m[s][r][1]) % 3>>]]

OuterProductMean(b, m, mask, chunk_size) ==
    LET mk == OptMask(mask, m) IN
    [i \in 1..Len(m[1]) |-> [j \in 1..Len(m[1]) |->
        <<(SumSeq([s \in 1..Len(m) |-> mk[s][i] * mk[s][j] * m[s][i][1] * m[s][j][2]]) + b) % 5,
          SumSeq([s \in 1..Len(m) |-> mk[s][i] * mk[s][j] * m[s][i][2] * m[s][j][1]]) % 3>>]]

TriangleMultiplicationOutgoing(b, z, mask) ==
    LET pm == OptMask(mask, z) IN
    [i \in 1..Len(z) |-> [j \in 1..Len(z) |->
        <<(SumSeq([k \in 1..Len(z) |-> pm[i][k] * pm[j][k] * z[i][k][1] * z[j][k][1]]) + b) % 5,
          SumSeq([k \in 1..Len(z) |-> pm[i][k] * pm[j][k] * z[i][k][2] * z[j][k][2]]) % 3>>]]

TriangleMultiplicationIncoming(b, z, mask) ==
    LET pm == OptMask(mask, z) IN
    [i \in 1..Len(z) |-> [j \in 1..Len(z) |->
        <<(SumSeq([k \in 1..Len(z) |-> pm[k][i] * pm[k][j] * z[k][i][1] * z[k][j][1]]) + 2 * b) % 5,
          (SumSeq([k \in 1..Len(z) |-> pm[k][i] * pm[k][j] * z[k][i][2] * z[k][j][2]]) + 1) % 3>>]]

TriangleAttentionStartingNode(b, z, mask, chunk_size) ==
    LET pm == OptMask(mask, z) IN
    [i \in 1..Len(z) |-> [j \in 1..Len(z) |->
        <<(SumSeq([k \in 1..Len(z) |-> pm[i][k] * (z[i][k][1] + z[j][k][2])]) + b) % 5,
          (SumSeq([k \in 1..Len(z) |-> pm[i][k] * z[i][k][2]]) + j) % 3>>]]

TriangleAttentionEndingNode(b, z, mask, chunk_size) ==
    LET pm == OptMask(mask, z) IN
    [i \in 1..Len(z) |-> [j \in 1..Len(z) |->
        <<(SumSeq([k \in 1..Len(z) |-> pm[k][j] * (z[k][j][1] + z[k][i][2])]) + i) % 5,
          (SumSeq([k \in 1..Len(z) |-> pm[k][j] * z[k][j][2]]) + b) % 3>>]]

\* PairTransition: the Transition of the pair representation, with its own
\* weights; an absent mask is a mask of ones.
PairTransition(b, z, mask, chunk_size) ==
    LET W1 == <<<<1, 1>>, <<0 - 1, 0>>, <<b, 0 - 1>>, <<0, 1>>>>
        W2 == <<<<0, 1, 0 - 1, 1>>, <<1, 0, b, 0 - 1>>>>
    IN  CHOOSE r \in
            { MulMask(z3, unsqueeze(OptMask(mask, z))) :
                z3 \in { Linear(W2, <<0, 1>>, z2) :
                    z2 \in { ReLU(z1) :
                        z1 \in { Linear(W1, <<0, 1, 0, 0>>, zn) :
                            zn \in {LayerNorm(z)} } } } } : TRUE

\* Dropout with one keep pattern shared along an axis: rows (dim -3) for
\* DropoutRowwise, columns (dim -2) for DropoutColumnwise.  It acts only in
\* training mode (rate 1/2: kept entries are doubled); key selects the pattern
\* drawn for this call.
DropoutRowwise(x, active, key) ==
    IF ~active THEN x
    ELSE [i \in 1..Len(x) |-> [j \in 1..Len(x[i]) |->
            <<2 * ((j + key) % 2) * x[i][j][1], 2 * ((j + key) % 2) * x[i][j][2]>>]]

DropoutColumnwise(x, active, key) ==
    IF ~active THEN x
    ELSE [i \in 1..Len(x) |-> [j \in 1..Len(x[i]) |->
            <<2 * ((i + key) % 2) * x[i][j][1], 2 * ((i + key) % 2) * x[i][j][2]>>]]


\* ----------------------------------------------------------------- state
VARIABLES
    cfg,        \* construction-time configuration of the Stack
    inp,        \* the caller's arguments and the entry point called
    sargs,      \* arguments of EvoformerStack.forward, None until it is called
    blocks,     \* the list of block callables built by EvoformerStack.forward
    ckpt,       \* the blocks_per_ckpt argument handed to checkpoint_blocks
    pc,         \* position of the single thread of control
    phase,      \* "forward" or "replay"
    idx,        \* position in blocks of the next callable to run
    hi,         \* last position of the slice being run
    cur,        \* the callable being run, None between calls
    m, z,       \* the tensors threaded through the blocks
    tmask,      \* msa_trans_mask and pair_trans_mask of the running Block
    calls,      \* sub-operation calls of the running Block.forward
    trace,      \* cache clears, Block entries and returns of the running phase
    saved,      \* inputs kept by the checkpoint engine, one per group
    replayed,   \* groups already replayed
    stack_ret,  \* value returned by EvoformerStack.forward
    ret         \* value returned to the caller

vars == <<cfg, inp, sargs, blocks, ckpt, pc, phase, idx, hi, cur, m, z, tmask,
          calls, trace, saved, replayed, stack_ret, ret>>

\* ---------------------------------------------------------------- inputs
MIn == [s \in 1..NSeq |-> [r \in 1..NRes |-> <<(s + r) % 3, (s * r) % 2>>]]
ZIn == [i \in 1..NRes |-> [j \in 1..NRes |-> <<(i + 2 * j) % 3, (i * j) % 2>>]]

OnesMask(n, k)  == [i \in 1..n |-> [j \in 1..k |-> 1]]
ZerosMask(n, k) == [i \in 1..n |-> [j \in 1..k |-> 0]]
\* the last residue is padding (and, for the MSA, so is the last sequence)
PadMsaMask  == [s \in 1..NSeq |-> [r \in 1..NRes |-> IF r = NRes \/ s = NSeq THEN 0 ELSE 1]]
PadPairMask == [i \in 1..NRes |-> [j \in 1..NRes |-> IF i = NRes \/ j = NRes THEN 0 ELSE 1]]

MaskPairs ==
    { <<Some(OnesMask(NSeq, NRes)), Some(OnesMask(NRes, NRes))>>,
      <<Some(ZerosMask(NSeq, NRes)), Some(ZerosMask(NRes, NRes))>>,
      <<Some(PadMsaMask), Some(PadPairMask)>> }

ChunkSizes == {None} \cup { Some(c) : c \in 1..MaxChunk }
GroupSizes == {None} \cup { Some(g) : g \in 1..NoBlocks }

\* --------------------------------------------------------- EvoformerBlock
\* the supplied mask handed to the transitions whatever the flag says
TransMask_always(mask, mask_trans) == mask

\* lines 220-221
TransMask(mask, mask_trans) == IF mask_trans THEN mask ELSE None

\* one call of a sub-operation with its residual update; out and upd are bound
\* as values
Entry(b, op, args, x, z2, base, mask, chunk, out, upd) ==
    CHOOSE e \in { [block |-> b, op |-> op, args |-> args, x |-> x, z2 |-> z2,
                    base |-> base, mask |-> mask, chunk |-> chunk, out |-> o,
                    upd |-> u, res |-> TAdd(base, u)] : o \in {out}, u \in {upd} } : TRUE

DropOn(cf) == cf.training

Call_msa_att_row(cf, c, mm, zz) ==
    LET out == MSARowAttentionWithPairBias(c.block, mm, zz, c.msa_mask, c.chunk_size)
    IN  Entry(c.block, "msa_att_row", {"m", "z", "mask", "chunk_size"}, mm, Some(zz), mm,
              c.msa_mask, c.chunk_size, out, DropoutRowwise(out, DropOn(cf), c.block + 1))

Call_msa_att_col(cf, c, mm) ==
    LET out == IF cf.is_extra
               THEN MSAColumnGlobalAttention(c.block, mm, c.msa_mask, c.chunk_size)
               ELSE MSAColumnAttention(c.block, mm, c.msa_mask, c.chunk_size)
    IN  Entry(c.block, "msa_att_col", {"m", "mask", "chunk_size"}, mm, None, mm,
              c.msa_mask, c.chunk_size, out, out)

Call_msa_transition(cf, c, msa_trans_mask, mm) ==
    LET out == MSATransition_forward(c.block, mm, msa_trans_mask, c.chunk_size)
    IN  Entry(c.block, "msa_transition", {"m", "mask", "chunk_size"}, mm, None, mm,
              msa_trans_mask, c.chunk_size, out, out)

Call_outer_product_mean(cf, c, mm, zz) ==
    LET out == OuterProductMean(c.block, mm, c.msa_mask, c.chunk_size)
    IN  Entry(c.block, "outer_product_mean", {"m", "mask", "chunk_size"}, mm, None, zz,
              c.msa_mask, c.chunk_size, out, out)

Call_tri_mul_out(cf, c, zz) ==
    LET out == TriangleMultiplicationOutgoing(c.block, zz, c.pair_mask)
    IN  Entry(c.block, "tri_mul_out", {"z", "mask"}, zz, None, zz,
              c.pair_mask, None, out, DropoutRowwise(out, DropOn(cf), c.block + 5))

Call_tri_mul_in(cf, c, zz) ==
    LET out == TriangleMultiplicationIncoming(c.block, zz, c.pair_mask)
    IN  Entry(c.block, "tri_mul_in", {"z", "mask"}, zz, None, zz,
              c.pair_mask, None, out, DropoutRowwise(out, DropOn(cf), c.block + 6))

\* the starting-node attention called without the chunk-size hint
Call_tri_att_start_nochunk(cf, c, zz) ==
    LET out == TriangleAttentionStartingNode(c.block, zz, c.pair_mask, None)
    IN  Entry(c.block, "tri_att_start", {"z", "mask"}, zz, None, zz,
              c.pair_mask, None, out, DropoutRowwise(out, DropOn(cf), c.block + 7))

Call_tri_att_start(cf, c, zz) ==
    LET out == TriangleAttentionStartingNode(c.block, zz, c.pair_mask, c.chunk_size)
    IN  Entry(c.block, "tri_att_start", {"z", "mask", "chunk_size"}, zz, None, zz,
              c.pair_mask, c.chunk_size, out, DropoutRowwise(out, DropOn(cf), c.block + 7))

Call_tri_att_end(cf, c, zz) ==
    LET out == TriangleAttentionEndingNode(c.block, zz, c.pair_mask, c.chunk_size)
    IN  Entry(c.block, "tri_att_end", {"z", "mask", "chunk_size"}, zz, None, zz,
              c.pair_mask, c.chunk_size, out, DropoutColumnwise(out, DropOn(cf), c.block + 8))

Call_pair_transition(cf, c, pair_trans_mask, zz) ==
    LET out == PairTransition(c.block, zz, pair_trans_mask, c.chunk_size)
    IN  Entry(c.block, "pair_transition", {"z", "mask", "chunk_size"}, zz, None, zz,
              pair_trans_mask, c.chunk_size, out, out)


\* the k-th update of EvoformerBlock.forward (lines 223-243) on st = [m, z]
EvoformerBlock_update(k, cf, c, st) ==
    CASE k = 1 -> [st EXCEPT !.m = Call_msa_att_row(cf, c, st.m, st.z).res]
      [] k = 2 -> [st EXCEPT !.m = Call_msa_att_col(cf, c, st.m).res]
      [] k = 3 -> [st EXCEPT !.m = Call_msa_transition(
                                      cf, c, TransMask(c.msa_mask, c.mask_trans), st.m).res]
      [] k = 4 -> [st EXCEPT !.z = Call_outer_product_mean(cf, c, st.m, st.z).res]
      [] k = 5 -> [st EXCEPT !.z = Call_tri_mul_out(cf, c, st.z).res]
      [] k = 6 -> [st EXCEPT !.z = Call_tri_mul_in(cf, c, st.z).res]
      [] k = 7 -> [st EXCEPT !.z = Call_tri_att_start(cf, c, st.z).res]
      [] k = 8 -> [st EXCEPT !.z = Call_tri_att_end(cf, c, st.z).res]
      [] k = 9 -> [st EXCEPT !.z = Call_pair_transition(
                                      cf, c, TransMask(c.pair_mask, c.mask_trans), st.z).res]

\* EvoformerBlock.forward as one function of (m, z): updates k..9 in order.
\* Each intermediate (m, z) is bound as a value before the next update reads it.
RECURSIVE EvoformerBlock_from(_, _, _, _)
EvoformerBlock_from(k, cf, c, st) ==
    IF k > 9 THEN st
    ELSE CHOOSE r \in { EvoformerBlock_from(k + 1, cf, c, s1) :
                           s1 \in {EvoformerBlock_update(k, cf, c, st)} } : TRUE

EvoformerBlock_forward(cf, c, st) == EvoformerBlock_from(1, cf, c, st)

\* --------------------------------------------------------- EvoformerStack
\* the partials listed in reverse construction order
EvoformerStack_blocks_reversed(a) ==
    [i \in 1..NoBlocks |->
        [block |-> NoBlocks + 1 - i, msa_mask |-> a.msa_mask, pair_mask |-> a.pair_mask,
         chunk_size |-> a.chunk_size, mask_trans |-> a.mask_trans, clear |-> FALSE]]

\* lines 369-378: one partial per block of self.blocks, in construction order
EvoformerStack_blocks(a) ==
    [i \in 1..NoBlocks |->
        [block |-> i, msa_mask |-> a.msa_mask, pair_mask |-> a.pair_mask,
         chunk_size |-> a.chunk_size, mask_trans |-> a.mask_trans, clear |-> FALSE]]

\* every wrapper bound to the last callable of the list (a late-bound loop variable)
EvoformerStack_wrap_latebound(bs) == [i \in 1..Len(bs) |-> [bs[Len(bs)] EXCEPT !.clear = TRUE]]

\* lines 380-385: every callable wrapped in block_with_cache_clear
EvoformerStack_wrap(bs) == [i \in 1..Len(bs) |-> [bs[i] EXCEPT !.clear = TRUE]]

\* the configured group size handed over in every mode
CheckpointArg_always(cf) == cf.blocks_per_ckpt

\* line 390
CheckpointArg(cf) == IF cf.training THEN cf.blocks_per_ckpt ELSE None

\* torch.index_select(m, dim=-3, index): the rows named by index (0-based)
index_select(mm, index) == [k \in 1..Len(index) |-> mm[index[k] + 1]]
\* squeeze(-3) of a tensor whose sequence axis has size one
squeeze(t) == t[1]
\* self.linear = Linear(c_m, c_s)
StackLinear(t) == Linear(<<<<1, 2>>, <<0 - 1, 1>>>>, <<0, 1>>, t)

\* the projection taken from the row at index 1
EvoformerStack_single_row1(cf, mm) ==
    IF ~cf.is_extra
    THEN Some(squeeze(StackLinear(index_select(mm, <<1>>))))
    ELSE None

\* lines 393-398
EvoformerStack_single(cf, mm) ==
    IF ~cf.is_extra
    THEN Some(squeeze(StackLinear(index_select(mm, <<0>>))))
    ELSE None

\* ---------------------------------------------------------- ExtraMSAStack
\* the first component of the Stack's result taken instead of the second
ExtraMSAStack_unpack_first(t) == t[1]

\* line 475: _, z, _ = self.stack(...)
ExtraMSAStack_unpack(t) == t[2]

\* ------------------------------------------------------------------ Init
Init ==
    \* a Stack built directly is the main trunk; ExtraMSAStack builds its own
    \* Stack with _is_extra_msa_stack=True (lines 432-451)
    /\ \E bpc \in GroupSizes, clear \in BOOLEAN, extra \in BOOLEAN,
          training \in BOOLEAN :
          cfg = [blocks_per_ckpt |-> bpc, clear_cache_between_blocks |-> clear,
                 is_extra |-> extra, training |-> training, has_linear |-> ~extra]
    /\ \E entry \in {"EvoformerStack", "ExtraMSAStack"},
          chunk \in ChunkSizes, mask_trans \in BOOLEAN,
          mk \in MaskPairs \cup {<<None, None>>} :
          /\ entry = "ExtraMSAStack" <=> cfg.is_extra
          /\ entry = "EvoformerStack" => mk \in MaskPairs
          /\ inp = [entry |-> entry, m |-> MIn, z |-> ZIn,
                    msa_mask |-> mk[1], pair_mask |-> mk[2],
                    chunk_size |-> chunk, mask_trans |-> mask_trans]
    /\ sargs = IF inp.entry = "EvoformerStack"
               THEN Some([m |-> inp.m, z |-> inp.z, msa_mask |-> inp.msa_mask,
                          pair_mask |-> inp.pair_mask, chunk_size |-> inp.chunk_size,
                          mask_trans |-> inp.mask_trans])
               ELSE None
    /\ pc = IF inp.entry = "EvoformerStack" THEN "stack_call" ELSE "extra_call"
    /\ blocks = <<>>
    /\ ckpt = None
    /\ phase = "forward"
    /\ idx = 1
    /\ hi = 0
    /\ cur = None
    /\ m = <<>>
    /\ z = <<>>
    /\ tmask = [msa |-> None, pair |-> None]
    /\ calls = <<>>
    /\ trace = <<>>
    /\ saved = <<>>
    /\ replayed = {}
    /\ stack_ret = None
    /\ ret = None

\* --------------------------------------------------------------- actions
\* ExtraMSAStack.forward, lines 475-482: the call of the internal Stack
ExtraMSAStack_call ==
    /\ pc = "extra_call"
    /\ sargs' = Some([m |-> inp.m, z |-> inp.z, msa_mask |-> inp.msa_mask,
                      pair_mask |-> inp.pair_mask, chunk_size |-> inp.chunk_size,
                      mask_trans |-> inp.mask_trans])
    /\ pc' = "stack_call"
    /\ UNCHANGED <<cfg, inp, blocks, ckpt, phase, idx, hi, cur, m, z, tmask,
                   calls, trace, saved, replayed, stack_ret, ret>>

\* EvoformerStack.forward, lines 369-391: build the callables and enter
\* checkpoint_blocks(blocks, args=(m, z), blocks_per_ckpt=...)
EvoformerStack_call ==
    /\ pc = "stack_call"
    /\ blocks' = IF cfg.clear_cache_between_blocks
                 THEN EvoformerStack_wrap(EvoformerStack_blocks(sargs[1]))
                 ELSE EvoformerStack_blocks(sargs[1])
    /\ ckpt' = CheckpointArg(cfg)
    /\ m' = sargs[1].m
    /\ z' = sargs[1].z
    /\ phase' = "forward"
    /\ idx' = 1
    /\ hi' = Len(blocks')
    /\ pc' = "engine"
    /\ UNCHANGED <<cfg, inp, sargs, cur, tmask, calls, trace, saved, replayed,
                   stack_ret, ret>>

\* checkpoint_blocks: call the next callable of the slice; in the forward
\* phase the input of each checkpoint group is kept for its replay
Engine_call ==
    /\ pc = "engine"
    /\ idx <= hi
    /\ cur' = Some(blocks[idx])
    /\ saved' = IF phase = "forward" /\ ckpt # None /\ (idx - 1) % ckpt[1] = 0
                THEN Append(saved, [start |-> idx, m |-> m, z |-> z])
                ELSE saved
    /\ pc' = IF blocks[idx].clear THEN "block_with_cache_clear" ELSE "block"
    /\ UNCHANGED <<cfg, inp, sargs, blocks, ckpt, phase, idx, hi, m, z, tmask,
                   calls, trace, replayed, stack_ret, ret>>

\* the wrapper going straight to the block, with no reclamation call
block_with_cache_clear_skipped ==
    /\ pc = "block_with_cache_clear"
    /\ pc' = "block"
    /\ UNCHANGED <<cfg, inp, sargs, blocks, ckpt, phase, idx, hi, cur, m, z, tmask,
                   calls, trace, saved, replayed, stack_ret, ret>>

\* block_with_cache_clear, lines 381-383: torch.cuda.empty_cache(), then the block
block_with_cache_clear ==
    /\ pc = "block_with_cache_clear"
    /\ trace' = Append(trace, [ev |-> "empty_cache", block |-> 0, phase |-> phase,
                               m |-> <<>>, z |-> <<>>])
    /\ pc' = "block"
    /\ UNCHANGED <<cfg, inp, sargs, blocks, ckpt, phase, idx, hi, cur, m, z, tmask,
                   calls, saved, replayed, stack_ret, ret>>

\* EvoformerBlock.forward, lines 208-221
Block_enter ==
    /\ pc = "block"
    /\ tmask' = [msa  |-> TransMask(cur[1].msa_mask, cur[1].mask_trans),
                 pair |-> TransMask(cur[1].pair_mask, cur[1].mask_trans)]
    /\ calls' = <<>>
    /\ trace' = Append(trace, [ev |-> "enter", block |-> cur[1].block, phase |-> phase,
                               m |-> m, z |-> z])
    /\ pc' = "msa_att_row"
    /\ UNCHANGED <<cfg, inp, sargs, blocks, ckpt, phase, idx, hi, cur, m, z,
                   saved, replayed, stack_ret, ret>>

BlockFrame == <<cfg, inp, sargs, blocks, ckpt, phase, idx, hi, cur, tmask, trace,
                saved, replayed, stack_ret, ret>>

\* one update of m: lines 223-229
StepM(from, to, e) ==
    /\ pc = from
    /\ calls' = Append(calls, e)
    /\ m' = e.res
    /\ pc' = to
    /\ UNCHANGED <<z, BlockFrame>>

\* one update of z: lines 230-243
StepZ(from, to, e) ==
    /\ pc = from
    /\ calls' = Append(calls, e)
    /\ z' = e.res
    /\ pc' = to
    /\ UNCHANGED <<m, BlockFrame>>

\* lines 223-225
Block_msa_att_row ==
    StepM("msa_att_row", "msa_att_col", Call_msa_att_row(cfg, cur[1], m, z))
\* line 226
Block_msa_att_col ==
    StepM("msa_att_col", "msa_transition", Call_msa_att_col(cfg, cur[1], m))
\* lines 227-229
Block_msa_transition ==
    StepM("msa_transition", "outer_product_mean",
          Call_msa_transition(cfg, cur[1], tmask.msa, m))
\* the coupling fed the m from before the MSA transition
Block_outer_product_mean_stale ==
    StepZ("outer_product_mean", "tri_mul_out",
          Call_outer_product_mean(cfg, cur[1], calls[3].x, z))

\* lines 230-232
Block_outer_product_mean ==
    StepZ("outer_product_mean", "tri_mul_out", Call_outer_product_mean(cfg, cur[1], m, z))
\* line 233
Block_tri_mul_out ==
    StepZ("tri_mul_out", "tri_mul_in", Call_tri_mul_out(cfg, cur[1], z))
\* line 234
Block_tri_mul_in ==
    StepZ("tri_mul_in", "tri_att_start", Call_tri_mul_in(cfg, cur[1], z))
\* lines 235-237
Block_tri_att_start ==
    StepZ("tri_att_start", "tri_att_end", Call_tri_att_start(cfg, cur[1], z))
\* lines 238-240
Block_tri_att_end ==
    StepZ("tri_att_end", "pair_transition", Call_tri_att_end(cfg, cur[1], z))
\* lines 241-243
Block_pair_transition ==
    StepZ("pair_transition", "block_return",
          Call_pair_transition(cfg, cur[1], tmask.pair, z))

\* line 245: return m, z to checkpoint_blocks, which moves to the next callable
Block_return ==
    /\ pc = "block_return"
    /\ trace' = Append(trace, [ev |-> "return", block |-> cur[1].block, phase |-> phase,
                               m |-> m, z |-> z])
    /\ cur' = None
    /\ idx' = idx + 1
    /\ pc' = "engine"
    /\ UNCHANGED <<cfg, inp, sargs, blocks, ckpt, phase, hi, m, z, tmask, calls,
                   saved, replayed, stack_ret, ret>>

\* checkpoint_blocks returns: to line 393 after the forward phase, to the
\* gradient computation after a replay
Engine_return ==
    /\ pc = "engine"
    /\ idx > hi
    /\ pc' = IF phase = "forward" THEN "single" ELSE "done"
    /\ UNCHANGED <<cfg, inp, sargs, blocks, ckpt, phase, idx, hi, cur, m, z, tmask,
                   calls, trace, saved, replayed, stack_ret, ret>>

\* EvoformerStack.forward, lines 393-400
EvoformerStack_return ==
    /\ pc = "single"
    /\ stack_ret' = Some(<<m, z, EvoformerStack_single(cfg, m)>>)
    /\ IF inp.entry = "EvoformerStack"
       THEN pc' = "done" /\ ret' = stack_ret'
       ELSE pc' = "extra_return" /\ ret' = ret
    /\ UNCHANGED <<cfg, inp, sargs, blocks, ckpt, phase, idx, hi, cur, m, z, tmask,
                   calls, trace, saved, replayed>>

\* ExtraMSAStack.forward, lines 475-483
ExtraMSAStack_return ==
    /\ pc = "extra_return"
    /\ ret' = Some(ExtraMSAStack_unpack(stack_ret[1]))
    /\ pc' = "done"
    /\ UNCHANGED <<cfg, inp, sargs, blocks, ckpt, phase, idx, hi, cur, m, z, tmask,
                   calls, trace, saved, replayed, stack_ret>>

\* A gradient request after the forward pass: gradients flow from the last
\* group back to the first, and the checkpoint engine replays the last group
\* not replayed yet from the input it kept for it.
Engine_replay ==
    /\ pc = "done"
    /\ \E g \in 1..Len(saved) :
         /\ g \notin replayed
         /\ \A h \in (g + 1)..Len(saved) : h \in replayed
         /\ replayed' = replayed \cup {g}
         /\ m' = saved[g].m
         /\ z' = saved[g].z
         /\ idx' = saved[g].start
         /\ hi' = IF saved[g].start + ckpt[1] - 1 < Len(blocks)
                  THEN saved[g].start + ckpt[1] - 1 ELSE Len(blocks)
    /\ phase' = "replay"
    /\ trace' = <<>>
    /\ pc' = "engine"
    /\ UNCHANGED <<cfg, inp, sargs, blocks, ckpt, cur, tmask, calls, saved,
                   stack_ret, ret>>

Next ==
    \/ ExtraMSAStack_call
    \/ EvoformerStack_call
    \/ Engine_call
    \/ block_with_cache_clear
    \/ Block_enter
    \/ Block_msa_att_row
    \/ Block_msa_att_col
    \/ Block_msa_transition
    \/ Block_outer_product_mean
    \/ Block_tri_mul_out
    \/ Block_tri_mul_in
    \/ Block_tri_att_start
    \/ Block_tri_att_end
    \/ Block_pair_transition
    \/ Block_return
    \/ Engine_return
    \/ EvoformerStack_return
    \/ ExtraMSAStack_return
    \/ Engine_replay

Spec == Init /\ [][Next]_vars


\* ============================================================ properties
BlockOrder ==
    <<"msa_att_row", "msa_att_col", "msa_transition", "outer_product_mean",
      "tri_mul_out", "tri_mul_in", "tri_att_start", "tri_att_end", "pair_transition">>

InBlock == \E k \in 1..Len(BlockOrder) : pc = BlockOrder[k] \/ pc = "block_return"

ZerosLike(x) == [i \in 1..Len(x) |-> [j \in 1..Len(x[i]) |-> <<0, 0>>]]
IsZero(x) == x = ZerosLike(x)
IsZeroMask(mask) == \A i \in 1..Len(mask) : \A j \in 1..Len(mask[i]) : mask[i][j] = 0

\* C1: one Block.forward call runs its nine sub-operations once each and in the
\* fixed order; the first reads the Block's input m and z, every later one reads
\* the m or z left by the step before it (the coupling reads the m left by the
\* MSA transition and adds to the Block's input z), and each adds its update
\* as a residual.
C1_BlockOrder ==
    /\ Len(calls) <= Len(BlockOrder)
    /\ \A k \in 1..Len(calls) : calls[k].op = BlockOrder[k]
    /\ InBlock =>
         LET ent == trace[Len(trace)] IN
         /\ ent.ev = "enter"
         /\ pc = "block_return" => Len(calls) = Len(BlockOrder)
         /\ pc # "block_return" => pc = BlockOrder[Len(calls) + 1]
         /\ \A k \in 1..Len(calls) :
              /\ calls[k].res = TAdd(calls[k].base, calls[k].upd)
              /\ k = 1 => /\ calls[k].x = ent.m
                          /\ calls[k].z2 = Some(ent.z)
                          /\ calls[k].base = ent.m
              /\ k \in {2, 3} => calls[k].x = calls[k - 1].res /\ calls[k].base = calls[k].x
              /\ k = 4 => calls[k].x = calls[3].res /\ calls[k].base = ent.z
              /\ k > 4 => calls[k].x = calls[k - 1].res /\ calls[k].base = calls[k].x
         /\ Len(calls) >= 3 => m = calls[3].res
         /\ Len(calls) >= 4 => z = calls[Len(calls)].res

\* a Block has finished whose coupling read an m changed by all three MSA steps
\* and whose triangular steps read a z changed by the coupling
C1_Witness ==
    /\ pc = "block_return"
    /\ Len(calls) = 9
    /\ calls[2].x # calls[1].x
    /\ calls[3].x # calls[2].x
    /\ calls[4].x # calls[3].x
    /\ calls[5].x # trace[Len(trace)].z
    /\ calls[9].res # calls[9].x

BlockEvents == SelectSeq(trace, LAMBDA e : e.ev # "empty_cache")

\* C2: within the forward phase and within every replay the blocks run one at a
\* time in construction order, each on the (m, z) returned by the one before;
\* the forward phase starts at the first block on the caller's (m, z) and runs
\* every block; a replay starts at the first block of its group on the (m, z)
\* that block was given in the forward phase.
C2_StackOrder ==
    LET ev == BlockEvents IN
    /\ \A k \in 1..Len(ev) :
         /\ k % 2 = 1 => ev[k].ev = "enter"
         /\ k % 2 = 0 => /\ ev[k].ev = "return"
                         /\ ev[k].block = ev[k - 1].block
         /\ (k % 2 = 1 /\ k > 1) => /\ ev[k].block = ev[k - 1].block + 1
                                    /\ ev[k].m = ev[k - 1].m
                                    /\ ev[k].z = ev[k - 1].z
    /\ (Len(ev) > 0 /\ phase = "forward") =>
         /\ ev[1].block = 1
         /\ ev[1].m = sargs[1].m
         /\ ev[1].z = sargs[1].z
    /\ (Len(ev) > 0 /\ phase = "replay") =>
         \E g \in replayed : /\ ev[1].block = saved[g].start
                             /\ ev[1].m = saved[g].m
                             /\ ev[1].z = saved[g].z
    /\ phase = "forward" =>
         \A g \in 1..Len(saved) :
            IF \E k \in 1..Len(ev) : ev[k].ev = "enter" /\ ev[k].block = saved[g].start
            THEN \A k \in 1..Len(ev) :
                    (ev[k].ev = "enter" /\ ev[k].block = saved[g].start) =>
                        (ev[k].m = saved[g].m /\ ev[k].z = saved[g].z)
            ELSE /\ pc \in {"block", "block_with_cache_clear"}
                 /\ cur[1].block = saved[g].start
                 /\ saved[g].m = m
                 /\ saved[g].z = z
    /\ InBlock <=> Len(ev) % 2 = 1
    /\ (pc = "single" \/ (pc = "done" /\ phase = "forward")) =>
         /\ Len(ev) = 2 * NoBlocks
         /\ ev[Len(ev)].block = NoBlocks
    /\ (pc = "done" /\ phase = "replay") =>
         /\ Len(ev) >= 2
         /\ \/ ev[Len(ev)].block = NoBlocks
            \/ \E g \in 1..Len(saved) : saved[g].start = ev[Len(ev)].block + 1

\* a replay of a group of at least two blocks has run to its end
C2_Witness ==
    /\ pc = "done"
    /\ phase = "replay"
    /\ Len(BlockEvents) >= 4
    /\ BlockEvents[3].m # BlockEvents[1].m

\* C3: with clear_cache_between_blocks set, every Block entry comes right after
\* one reclamation call and every reclamation call is followed at once by a
\* Block entry; without the flag there is no reclamation call at all.
C3_CacheClear ==
    IF cfg.clear_cache_between_blocks
    THEN \A k \in 1..Len(trace) :
           /\ trace[k].ev = "enter" => (k > 1 /\ trace[k - 1].ev = "empty_cache")
           /\ trace[k].ev = "empty_cache" =>
                IF k < Len(trace) THEN trace[k + 1].ev = "enter" ELSE pc = "block"
    ELSE \A k \in 1..Len(trace) : trace[k].ev # "empty_cache"

\* the second block of a replayed checkpoint group has been entered with the flag set
C3_Witness ==
    /\ cfg.clear_cache_between_blocks
    /\ phase = "replay"
    /\ Len(BlockEvents) >= 3
    /\ InBlock
    /\ Len(SelectSeq(trace, LAMBDA e : e.ev = "empty_cache")) = 2

BlockArgs(k) ==
    [block |-> k, msa_mask |-> sargs[1].msa_mask, pair_mask |-> sargs[1].pair_mask,
     chunk_size |-> sargs[1].chunk_size, mask_trans |-> sargs[1].mask_trans,
     clear |-> FALSE]

\* blocks k..NoBlocks applied one after the other to st = [m, z]
RECURSIVE PlainSequential(_, _)
PlainSequential(k, st) ==
    IF k > NoBlocks THEN st
    ELSE CHOOSE r \in { PlainSequential(k + 1, s1) :
                           s1 \in {EvoformerBlock_forward(cfg, BlockArgs(k), st)} } : TRUE

C5_SingleRepresentation ==
    (stack_ret # None /\ phase = "forward") =>
        LET last == trace[Len(trace)] IN
        /\ last.ev = "return"
        /\ last.block = NoBlocks
        /\ IF cfg.is_extra
           THEN ~cfg.has_linear /\ stack_ret[1][3] = None
           ELSE /\ cfg.has_linear
                /\ stack_ret[1][3] # None
                /\ Len(stack_ret[1][3][1]) = NRes
                /\ \A r \in 1..NRes :
                     stack_ret[1][3][1][r] =
                        LinearVec(<<<<1, 2>>, <<0 - 1, 1>>>>, <<0, 1>>, last.m[1][r])

\* s has been produced from a final m whose first row differs from its other
\* rows and from the first row of the input m
C5_Witness ==
    /\ stack_ret # None
    /\ phase = "forward"
    /\ ~cfg.is_extra
    /\ stack_ret[1][1][1] # stack_ret[1][1][2]
    /\ stack_ret[1][1][1] # sargs[1].m[1]
    /\ stack_ret[1][3][1] # StackLinear(<<stack_ret[1][1][2]>>)[1]
    /\ stack_ret[1][3][1] # StackLinear(<<sargs[1].m[1]>>)[1]

\* C6: ExtraMSAStack.forward hands its arguments unchanged to a Stack built as
\* an extra-MSA stack and returns exactly the z of that Stack's result, never
\* its m or its s.
C6_ExtraReturn ==
    /\ (inp.entry = "ExtraMSAStack" /\ sargs # None) =>
         /\ cfg.is_extra
         /\ sargs[1] = [m |-> inp.m, z |-> inp.z, msa_mask |-> inp.msa_mask,
                        pair_mask |-> inp.pair_mask, chunk_size |-> inp.chunk_size,
                        mask_trans |-> inp.mask_trans]
    /\ (inp.entry = "ExtraMSAStack" /\ ret # None) =>
         /\ stack_ret # None
         /\ ret = Some(stack_ret[1][2])
         /\ ret[1] # stack_ret[1][1]
         /\ ret # stack_ret[1][3]
         /\ Len(ret[1]) = NRes
         /\ \A i \in 1..NRes : Len(ret[1][i]) = NRes

\* the wrapper has returned a z that its Stack changed
C6_Witness ==
    /\ inp.entry = "ExtraMSAStack"
    /\ pc = "done"
    /\ ret # None
    /\ ret[1] # inp.z
    /\ stack_ret[1][1] # inp.m

\* C7: with mask_trans false the two transitions of a Block get no mask and
\* return what they return under a mask of ones, whatever masks were supplied;
\* with mask_trans true they get the supplied mask, and a supplied all-zero
\* mask makes their output exactly zero.
C7_MaskTransitions ==
    /\ \A k \in 1..Len(calls) :
          LET e == calls[k] IN
          /\ e.op = "msa_transition" =>
               IF ~sargs[1].mask_trans
               THEN e.mask = None
               ELSE /\ e.mask = sargs[1].msa_mask
                    /\ (e.mask # None /\ IsZeroMask(e.mask[1])) => IsZero(e.out)
          /\ e.op = "pair_transition" =>
               IF ~sargs[1].mask_trans
               THEN e.mask = None
               ELSE /\ e.mask = sargs[1].pair_mask
                    /\ (e.mask # None /\ IsZeroMask(e.mask[1])) => IsZero(e.out)
    \* the state right after each transition has returned
    /\ (pc = "outer_product_mean" /\ ~sargs[1].mask_trans) =>
          calls[3].out = MSATransition_forward(calls[3].block, calls[3].x,
                                               Some(new_ones(calls[3].x)), calls[3].chunk)
    /\ (pc = "block_return" /\ ~sargs[1].mask_trans) =>
          calls[9].out = PairTransition(calls[9].block, calls[9].x,
                                        Some(new_ones(calls[9].x)), calls[9].chunk)

\* a Block given all-zero masks with mask_trans false has run both transitions
\* and neither returned zero
C7_Witness ==
    /\ pc = "block_return"
    /\ ~sargs[1].mask_trans
    /\ sargs[1].msa_mask # None
    /\ IsZeroMask(sargs[1].msa_mask[1])
    /\ IsZeroMask(sargs[1].pair_mask[1])
    /\ ~IsZero(calls[3].out)
    /\ ~IsZero(calls[9].out)

\* C8: the MSA transition called with a chunk size returns what it returns
\* without one, for the chunk size it was called with and for every chunk size
\* from one to past the number of rows, with the mask supplied or absent.
C8_TilingEquivalence ==
    \* the state right after the transition has returned
    pc = "outer_product_mean" =>
       \A untiled \in {MSATransition_forward(calls[3].block, calls[3].x, calls[3].mask, None)} :
          /\ calls[3].op = "msa_transition"
          /\ calls[3].out = untiled
          /\ \A c \in 1..(Len(calls[3].x) + 1) :
                MSATransition_forward(calls[3].block, calls[3].x, calls[3].mask, Some(c))
                   = untiled

\* the transition has run tiled with a chunk size that does not divide the
\* number of rows, under a supplied mask that is neither all ones nor all zero,
\* and its slices came out different
C8_Witness ==
    /\ pc = "outer_product_mean"
    /\ calls[3].chunk # None
    /\ calls[3].chunk[1] < Len(calls[3].x)
    /\ Len(calls[3].x) % calls[3].chunk[1] # 0
    /\ calls[3].mask # None
    /\ ~IsZeroMask(calls[3].mask[1])
    /\ calls[3].mask[1] # new_ones(calls[3].x)
    /\ calls[3].out[1] # calls[3].out[Len(calls[3].x)]

\* C9: checkpoint_blocks is handed the configured group size in training mode
\* and none in evaluation mode; in evaluation mode no group input is kept and
\* nothing is ever replayed.
C9_CheckpointOnlyInTraining ==
    /\ pc \notin {"extra_call", "stack_call"} =>
         ckpt = IF cfg.training THEN cfg.blocks_per_ckpt ELSE None
    /\ ~cfg.training => /\ saved = <<>>
                        /\ replayed = {}
                        /\ phase = "forward"

\* an evaluation-mode Stack configured with a group size has run to its end
C9_Witness ==
    /\ ~cfg.training
    /\ cfg.blocks_per_ckpt # None
    /\ pc = "done"
    /\ Len(BlockEvents) = 2 * NoBlocks

IsTriMul(op) == op \in {"tri_mul_out", "tri_mul_in"}

\* C10 (as stated): every sub-operation call of a Block, the two triangular
\* multiplicative updates included, is passed the chunk-size hint of the Block.
C10_Original ==
    \A k \in 1..Len(calls) :
       /\ "chunk_size" \in calls[k].args
       /\ calls[k].chunk = sargs[1].chunk_size

\* C10 (amended): the seven sub-operations other than the two triangular
\* multiplicative updates are passed the chunk-size hint of the Block; the two
\* triangular multiplicative updates are called with z and the mask only.
C10_ChunkHint ==
    \A k \in 1..Len(calls) :
       IF IsTriMul(calls[k].op)
       THEN /\ calls[k].args = {"z", "mask"}
            /\ calls[k].chunk = None
       ELSE /\ "chunk_size" \in calls[k].args
            /\ calls[k].chunk = sargs[1].chunk_size

\* a Block called with a chunk size has run all nine sub-operations
C10_Witness ==
    /\ pc = "block_return"
    /\ Len(calls) = 9
    /\ sargs[1].chunk_size # None

====
